---- MODULE Spec2Model ----
(***************************************************************************)
(* Teleport (teleport.py): a schema-driven JSON validation/serialization   *)
(* engine with a scoped type-name registry (TypeMap on a context-local     *)
(* stack).                                                                 *)
(*                                                                         *)
(* Python values are modelled as tagged tuples, so that values of          *)
(* different Python types can be compared:                                 *)
(*   <<"None">>  <<"bool", b>>  <<"int", n>>  <<"float", tenths>>          *)
(*   <<"unicode", text>>  <<"str", bytes>>  <<"list", seq>>                *)
(*   <<"dict", f>>  (f a function from key values to values)               *)
(*   <<"OrderedDict", seq of <<key, value>>>>   <<"Box", datum>>           *)
(*   <<"class", name>>  <<"instance", name, param>>  (serializers)         *)
(* The outcome of a call is <<"ok", value>> or                             *)
(* <<"raise", exception class, message, stack, obj>>.                      *)
(***************************************************************************)
EXTENDS Integers, Sequences, FiniteSets, TLC

VARIABLES
    ctx,        \* _ctx_stack: per thread, the stack of pushed TypeMap objects
    blocks,     \* per thread, the with-blocks / middleware calls it is inside
    running,    \* the thread that is executing
    last,       \* the last completed registry operation and its outcome
    hashOrder,  \* iteration order of dict and set objects in this run
    call,       \* the codec call under evaluation: <<operation, schema, datum>>
    result      \* its outcome, <<"pending">> until the call has run

vars == <<ctx, blocks, running, last, hashOrder, call, result>>

----------------------------------------------------------------------------
\* Bounds of the model

MaxDepth == 2
MaxLen == 2
MaxInt == 2

Threads == {"t1", "t2"}

----------------------------------------------------------------------------
\* Python values

NoneV == <<"None">>
PyBool(b) == <<"bool", b>>
PyInt(n) == <<"int", n>>
PyFloat(tenths) == <<"float", tenths>>
U(text) == <<"unicode", text>>
S(bytes) == <<"str", bytes>>
List(seq) == <<"list", seq>>
Dict(f) == <<"dict", f>>
OrderedDict(pairs) == <<"OrderedDict", pairs>>
Box(datum) == <<"Box", datum>>
Class(name) == <<"class", name>>
Instance(name, param) == <<"instance", name, param>>

type(v) == v[1]

Range(seq) == {seq[i] : i \in DOMAIN seq}

Reverse(seq) == [i \in 1..Len(seq) |-> seq[Len(seq) + 1 - i]]

\* Outcomes of a call
Ok(v) == <<"ok", v>>
NoObj == <<"no obj">>
Raise(cls, message, obj) == <<"raise", cls, message, <<>>, obj>>
IsOk(r) == r[1] = "ok"
IsRaise(r) == r[1] = "raise"
Val(r) == r[2]

ValidationErrors ==
    {"ValidationError", "UnicodeDecodeValidationError", "UnknownTypeValidationError"}

IsValidationError(r) == IsRaise(r) /\ r[2] \in ValidationErrors

\* The item put before the ones already on the stack
Pushed_first(r, item) == <<"raise", r[2], r[3], <<item>> \o r[4], r[5]>>

\* e.stack.append(item); raise
Pushed(r, item) == <<"raise", r[2], r[3], Append(r[4], item), r[5]>>

\* ValidationError.__str__, as the pieces of the text in the order they are
\* printed: the items of "Item at [..][..]", the message, the object (NoObj
\* when none was passed in)
ValidationError_str(e) == <<Reverse(e[4]), e[3], e[5]>>

----------------------------------------------------------------------------
\* Python built-ins on the modelled values

\* bool(v): the truth value Python gives an object in "if v:"
Truthy(v) ==
    CASE type(v) = "None" -> FALSE
      [] type(v) = "bool" -> v[2]
      [] type(v) = "int" -> v[2] # 0
      [] type(v) = "float" -> v[2] # 0
      [] type(v) \in {"unicode", "str"} -> v[2] # ""
      [] type(v) = "list" -> Len(v[2]) # 0
      [] type(v) = "dict" -> DOMAIN v[2] # {}
      [] type(v) = "OrderedDict" -> Len(v[2]) # 0
      [] OTHER -> TRUE

IsText(v) == type(v) \in {"unicode", "str"}

\* a == b for two keys: a str and a unicode object with the same text are
\* equal and hash alike
KeyEq(a, b) == IF IsText(a) /\ IsText(b) THEN a[2] = b[2] ELSE a = b

\* The texts of the keys used, in the order a hash table happens to hold them
KeyTexts ==
    <<"a", "b", "c", "bar", "barr", "foo", "map", "order", "schema", "datum",
      "type", "param", "required", "doc", "nope">>

\* d.keys() of a dict, as a list in iteration order
DictKeys(d) ==
    LET ks == DOMAIN d[2]
        base == IF hashOrder = "asc" THEN KeyTexts ELSE Reverse(KeyTexts)
        texts == SelectSeq(base, LAMBDA x : \E k \in ks : k[2] = x)
    IN [i \in 1..Len(texts) |-> CHOOSE k \in ks : k[2] = texts[i]]

\* d.keys() of a dict or an OrderedDict
Keys(d) ==
    IF type(d) = "OrderedDict" THEN [i \in 1..Len(d[2]) |-> d[2][i][1]]
    ELSE DictKeys(d)

\* key in d.keys()
HasKey(d, key) == \E i \in 1..Len(Keys(d)) : KeyEq(Keys(d)[i], key)

\* d[key], for a key that d has
Get(d, key) ==
    IF type(d) = "OrderedDict"
    THEN d[2][CHOOSE i \in 1..Len(d[2]) : KeyEq(d[2][i][1], key)][2]
    ELSE d[2][CHOOSE k \in DOMAIN d[2] : KeyEq(k, key)]

\* a dict literal {k1: v1, ...}, given as a sequence of <<key, value>>
DictOf(pairs) ==
    Dict([k \in {pairs[i][1] : i \in DOMAIN pairs} |->
             pairs[CHOOSE i \in DOMAIN pairs : pairs[i][1] = k][2]])

\* OrderedDict(list of pairs): a repeated key keeps its first place and takes
\* its last value
OrderedDictOf(pairs) ==
    LET firsts == SelectSeq([i \in DOMAIN pairs |-> i],
                    LAMBDA i : \A j \in 1..(i - 1) : ~KeyEq(pairs[j][1], pairs[i][1]))
        lastOf(i) == CHOOSE j \in DOMAIN pairs :
                        /\ KeyEq(pairs[j][1], pairs[i][1])
                        /\ \A n \in DOMAIN pairs :
                              KeyEq(pairs[n][1], pairs[i][1]) => n <= j
    IN OrderedDict([n \in 1..Len(firsts) |->
                       <<pairs[firsts[n]][1], pairs[lastOf(firsts[n])][2]>>])

Min(set) == CHOOSE x \in set : \A y \in set : x <= y

\* base64: the byte strings of the model and their encodings
Base64Table == {<<"", "">>, <<"abc", "YWJj">>, <<"a", "YQ==">>}

b64encode(bytes) == (CHOOSE p \in Base64Table : p[1] = bytes)[2]

\* b64decode raises TypeError on text that is no base64 encoding
b64decodable(text) == \E p \in Base64Table : p[2] = text

b64decode(text) == (CHOOSE p \in Base64Table : p[2] = text)[1]

\* byte strings that are not UTF-8
InvalidUtf8 == {"\\xff"}

----------------------------------------------------------------------------
\* Serializers and the type registry

\* required(name, schema)
required(name, schema) == <<name, DictOf(<< <<S("schema"), schema>> >>)>>

\* Struct(param): a list of pairs becomes an OrderedDict
Struct(param) ==
    Instance("Struct", IF type(param) = "list" THEN OrderedDictOf(param[2]) ELSE param)

Array(param) == Instance("Array", param)
Map(param) == Instance("Map", param)
Maybe(param) == Instance("Maybe", param)
OrderedMap(param) == Instance("OrderedMap", param)

\* self.schema of an OrderedMap instance, set by OrderedMap.__init__
OrderedMap_schema(self) ==
    Struct(List(<<required(U("map"), Map(self[3])),
                  required(U("order"), Array(Class("String")))>>))

\* Dynamic.schema
Dynamic_schema ==
    Struct(List(<<required(S("schema"), Class("Schema")),
                  required(S("datum"), Maybe(Class("JSON")))>>))

\* Suit.schema (a BasicWrapper of the tests; it defines no inflate or deflate)
Suit_schema == Class("String")

\* BUILTIN_TYPES: type name -> <<serializer, param_schema>>
BUILTIN_TYPES ==
    [name \in {"Maybe", "Nothing", "Dynamic", "Integer", "Float", "String", "Binary",
               "Boolean", "Schema", "JSON", "Array", "Map", "OrderedMap", "Struct"} |->
        CASE name \in {"Maybe", "Array", "Map", "OrderedMap"} ->
                <<Class(name), Class("Schema")>>
          [] name = "Struct" ->
                <<Class("Struct"),
                  OrderedMap(Struct(List(<<required(U("schema"), Class("Schema"))>>)))>>
          [] OTHER -> <<Class(name), NoneV>>]

\* BUILTIN_TYPES[name]: TypeError for an unhashable name, KeyError for a name
\* that is no key
BUILTIN_TYPES_getitem(name) ==
    IF type(name) \in {"list", "dict"}
    THEN Raise("TypeError", "unhashable type", NoObj)
    ELSE IF IsText(name) /\ name[2] \in DOMAIN BUILTIN_TYPES
    THEN Ok(BUILTIN_TYPES[name[2]])
    ELSE Raise("KeyError", "", name)

\* The TypeMap classes: TypeMap itself, ExtendedTypeMap of its documentation and
\* AllSuits of the tests
TypeMapClasses == {"TypeMap", "ExtendedTypeMap", "AllSuits"}

\* An instance of one of them
New(cls) == <<"instance", cls>>

TypeMaps == {New(cls) : cls \in TypeMapClasses}

\* name == "text", for a name of any type
NameIs(name, text) == IsText(name) /\ name[2] = text

TypeMap_getitem(self, name) == BUILTIN_TYPES_getitem(name)

ExtendedTypeMap_getitem(self, name) ==
    IF NameIs(name, "YesNoMaybe") THEN Ok(<<Class("YesNoMaybe"), NoneV>>)
    ELSE BUILTIN_TYPES_getitem(name)

AllSuits_getitem(self, name) ==
    IF NameIs(name, "Array") THEN BUILTIN_TYPES_getitem(S("Array"))
    ELSE IF NameIs(name, "suit") THEN Ok(<<Class("Suit"), NoneV>>)
    ELSE Raise("KeyError", "", NoObj)

\* map[name], dispatched on the class of map
getitem(map, name) ==
    CASE map[2] = "ExtendedTypeMap" -> ExtendedTypeMap_getitem(map, name)
      [] map[2] = "AllSuits" -> AllSuits_getitem(map, name)
      [] OTHER -> TypeMap_getitem(map, name)

_global_map == New("TypeMap")

\* A stack shared by the threads instead of one per thread
top_of_any_thread(t) ==
    IF \E u \in Threads : Len(ctx[u]) > 0
    THEN LET u == CHOOSE u \in Threads : Len(ctx[u]) > 0 /\ (Len(ctx[t]) > 0 => u = t)
         IN ctx[u][Len(ctx[u])]
    ELSE NoneV

\* _ctx_stack.top in thread t: the last object pushed by t, or None
top(t) == IF Len(ctx[t]) > 0 THEN ctx[t][Len(ctx[t])] ELSE NoneV

\* A read of the top that takes the object off the stack
LocalStack_top_pops(stacks, t) ==
    [stacks EXCEPT ![t] = IF Len(@) > 0 THEN SubSeq(@, 1, Len(@) - 1) ELSE @]

\* The stacks after _get_current_map read _ctx_stack.top in thread t: reading
\* the top pushes and pops nothing
LocalStack_top(stacks, t) == stacks

\* The stack ignored
_get_current_map_global == _global_map

_get_current_map == IF top(running) # NoneV THEN top(running) ELSE _global_map

\* self put under the objects already pushed
TypeMap_enter_outermost(stacks, t, self) == [stacks EXCEPT ![t] = <<self>> \o @]

\* _ctx_stack.push(self) in thread t
TypeMap_enter(stacks, t, self) == [stacks EXCEPT ![t] = Append(@, self)]

\* No pop when the block ended with an exception
TypeMap_exit_unless_raised(stacks, t, exc_type) ==
    [stacks EXCEPT ![t] = IF Len(@) > 0 /\ ~exc_type THEN SubSeq(@, 1, Len(@) - 1) ELSE @]

\* _ctx_stack.pop() in thread t, whatever exc_type is
TypeMap_exit(stacks, t, exc_type) ==
    [stacks EXCEPT ![t] = IF Len(@) > 0 THEN SubSeq(@, 1, Len(@) - 1) ELSE @]

----------------------------------------------------------------------------
\* The serializers: from_box / from_json / to_box / to_json of every class.
\* schema.from_box(box) and the like are dispatched on the class of schema.

RECURSIVE from_box(_, _), from_json(_, _), to_box(_, _), to_json(_, _)

ValidationError(message, obj) == Raise("ValidationError", message, obj)

\* x.name for an object without that attribute, or a call no class defines
AttributeError(name) == Raise("AttributeError", name, NoObj)

KeyError(key) == Raise("KeyError", "", key)

\* Basic.from_box
Basic_from_box(cls, box) ==
    IF box = NoneV THEN ValidationError("Non-empty value expected", NoObj)
    ELSE from_json(cls, box[2])

\* Basic.to_box
Basic_to_box(cls, datum) ==
    LET r == to_json(cls, datum) IN IF IsOk(r) THEN Ok(Box(Val(r))) ELSE r

\* Parametrized.from_box: box.datum of None is an AttributeError
Parametrized_from_box(self, box) ==
    IF box = NoneV THEN AttributeError("datum") ELSE from_json(self, box[2])

\* Parametrized.to_box
Parametrized_to_box(self, datum) ==
    LET r == to_json(self, datum) IN IF IsOk(r) THEN Ok(Box(Val(r))) ELSE r

\* BasicPrimitive.from_json and to_json
BasicPrimitive_from_json(datum) == Ok(datum)

BasicPrimitive_to_json(datum) == Ok(datum)

Integer_from_json(datum) ==
    IF type(datum) = "int" THEN Ok(datum)
    ELSE IF type(datum) = "float" /\ datum[2] % 10 = 0 THEN Ok(PyInt(datum[2] \div 10))
    ELSE ValidationError("Invalid Integer", datum)

Float_from_json(datum) ==
    IF type(datum) = "float" THEN Ok(datum)
    ELSE IF type(datum) = "int" THEN Ok(PyFloat(datum[2] * 10))
    ELSE ValidationError("Invalid Float", datum)

String_from_json(datum) ==
    IF type(datum) = "unicode" THEN Ok(datum)
    ELSE IF type(datum) = "str"
    THEN IF datum[2] \in InvalidUtf8
         THEN Raise("UnicodeDecodeValidationError", "invalid start byte", NoObj)
         ELSE Ok(U(datum[2]))
    ELSE ValidationError("Invalid String", datum)

Binary_from_json(datum) ==
    IF IsText(datum)
    THEN IF b64decodable(datum[2]) THEN Ok(S(b64decode(datum[2])))
         ELSE ValidationError("Invalid base64 encoding", datum)
    ELSE ValidationError("Invalid Binary data", datum)

Binary_to_json(datum) ==
    IF IsText(datum) /\ \E p \in Base64Table : p[1] = datum[2]
    THEN Ok(S(b64encode(datum[2])))
    ELSE Raise("TypeError", "must be string or buffer", NoObj)

Boolean_from_json(datum) ==
    IF type(datum) = "bool" THEN Ok(datum)
    ELSE ValidationError("Invalid Boolean", datum)

JSON_from_box(datum) == Ok(datum)

JSON_to_box(datum) == Ok(datum)

JSON_from_json(datum) == Ok(Box(datum))

JSON_to_json(datum) ==
    IF type(datum) = "Box" THEN Ok(datum[2]) ELSE AttributeError("datum")

\* The first index of results whose outcome is an exception, 0 if there is none
FirstRaise(results) ==
    IF \A i \in DOMAIN results : IsOk(results[i]) THEN 0
    ELSE Min({i \in DOMAIN results : ~IsOk(results[i])})

Array_from_json(self, datum) ==
    IF type(datum) = "list"
    THEN LET rs == [i \in DOMAIN datum[2] |-> from_box(self[3], Box(datum[2][i]))]
             bad == FirstRaise(rs)
         IN IF bad = 0 THEN Ok(List([i \in DOMAIN rs |-> Val(rs[i])]))
            ELSE IF IsValidationError(rs[bad]) THEN Pushed(rs[bad], PyInt(bad - 1))
            ELSE rs[bad]
    ELSE ValidationError("Invalid Array", datum)

Array_to_json(self, datum) ==
    IF type(datum) = "list"
    THEN LET rs == [i \in DOMAIN datum[2] |-> to_json(self[3], datum[2][i])]
             bad == FirstRaise(rs)
         IN IF bad = 0 THEN Ok(List([i \in DOMAIN rs |-> Val(rs[i])])) ELSE rs[bad]
    ELSE Raise("TypeError", "not iterable", NoObj)

Struct_from_json(self, datum) ==
    IF type(datum) = "dict"
    THEN LET param == self[3]
             boxes == Dict([k \in {k \in DOMAIN datum[2] : datum[2][k] # NoneV} |->
                               Box(datum[2][k])])
             \* set(boxes.keys()) - set(self.param.keys()), then list(extra)
             extra == SelectSeq(DictKeys(boxes), LAMBDA k : ~HasKey(param, k))
             fields == Keys(param)
             rs == [i \in DOMAIN fields |->
                      from_box(Get(Get(param, fields[i]), S("schema")),
                               IF HasKey(boxes, fields[i])
                               THEN Get(boxes, fields[i]) ELSE NoneV)]
             bad == FirstRaise(rs)
             kept == {i \in DOMAIN fields : Truthy(Val(rs[i]))}
         IN IF Len(extra) > 0 THEN ValidationError("Unexpected fields", List(extra))
            ELSE IF bad = 0
            THEN Ok(Dict([k \in {fields[i] : i \in kept} |->
                            Val(rs[CHOOSE i \in kept : fields[i] = k])]))
            ELSE IF IsValidationError(rs[bad]) THEN Pushed(rs[bad], fields[bad])
            ELSE rs[bad]
    ELSE ValidationError("Invalid Struct", datum)

\* Every field the value has is emitted, those that hold None too
Struct_to_json_keep_null(self, datum) ==
    IF type(datum) \in {"dict", "OrderedDict"}
    THEN LET param == self[3]
             fields == Keys(param)
             present == {i \in DOMAIN fields : HasKey(datum, fields[i])}
             rs == [i \in DOMAIN fields |->
                      IF i \in present
                      THEN to_box(Get(Get(param, fields[i]), S("schema")),
                                  Get(datum, fields[i]))
                      ELSE Ok(NoneV)]
             bad == FirstRaise(rs)
             kept == {i \in present : Truthy(Val(rs[i]))}
         IN IF bad = 0
            THEN Ok(Dict([k \in {fields[i] : i \in kept} |->
                            Val(rs[CHOOSE i \in kept : fields[i] = k])[2]]))
            ELSE rs[bad]
    ELSE AttributeError("keys")

Struct_to_json(self, datum) ==
    IF type(datum) \in {"dict", "OrderedDict"}
    THEN LET param == self[3]
             fields == Keys(param)
             present == {i \in DOMAIN fields :
                            HasKey(datum, fields[i]) /\ Get(datum, fields[i]) # NoneV}
             rs == [i \in DOMAIN fields |->
                      IF i \in present
                      THEN to_box(Get(Get(param, fields[i]), S("schema")),
                                  Get(datum, fields[i]))
                      ELSE Ok(NoneV)]
             \* b.datum of a true b that is no Box is an AttributeError
             bs == [i \in DOMAIN fields |->
                      IF IsOk(rs[i]) /\ Truthy(Val(rs[i])) /\ type(Val(rs[i])) # "Box"
                      THEN AttributeError("datum") ELSE rs[i]]
             bad == FirstRaise(bs)
             kept == {i \in present : Truthy(Val(bs[i]))}
         IN IF bad = 0
            THEN Ok(Dict([k \in {fields[i] : i \in kept} |->
                            Val(bs[CHOOSE i \in kept : fields[i] = k])[2]]))
            ELSE bs[bad]
    ELSE AttributeError("keys")

Map_from_json(self, datum) ==
    IF type(datum) = "dict"
    THEN LET ks == DictKeys(datum)
             rs == [i \in DOMAIN ks |->
                      IF type(ks[i]) # "unicode"
                      THEN ValidationError("Map key must be unicode", ks[i])
                      ELSE LET r == from_box(self[3], Box(datum[2][ks[i]]))
                           IN IF IsValidationError(r) THEN Pushed(r, ks[i]) ELSE r]
             bad == FirstRaise(rs)
         IN IF bad = 0
            THEN Ok(Dict([k \in DOMAIN datum[2] |->
                            Val(rs[CHOOSE i \in DOMAIN ks : ks[i] = k])]))
            ELSE rs[bad]
    ELSE ValidationError("Invalid Map", datum)

Map_to_json(self, datum) ==
    IF type(datum) \in {"dict", "OrderedDict"}
    THEN LET ks == Keys(datum)
             rs == [i \in DOMAIN ks |-> to_json(self[3], Get(datum, ks[i]))]
             bad == FirstRaise(rs)
         IN IF bad = 0
            THEN Ok(Dict([k \in Range(ks) |-> Val(rs[CHOOSE i \in DOMAIN ks : ks[i] = k])]))
            ELSE rs[bad]
    ELSE AttributeError("items")

\* OrderedMap.inflate: datum is what self.schema made of the wire value
OrderedMap_inflate(self, datum) ==
    IF ~HasKey(datum, S("order")) THEN KeyError(S("order"))
    ELSE IF ~HasKey(datum, S("map")) THEN KeyError(S("map"))
    ELSE LET order == Get(datum, S("order"))[2]
             map == Get(datum, S("map"))
             keys == Keys(map)
         IN IF \/ Len(order) # Len(keys)
               \/ {order[i][2] : i \in DOMAIN order} # {keys[i][2] : i \in DOMAIN keys}
            THEN ValidationError("Invalid OrderedMap", datum)
            ELSE Ok(OrderedDictOf([i \in DOMAIN order |-> <<order[i], Get(map, order[i])>>]))

\* OrderedMap.deflate
OrderedMap_deflate(self, datum) ==
    IF type(datum) \in {"dict", "OrderedDict"}
    THEN LET ks == Keys(datum)
         IN Ok(DictOf(<< <<S("map"), Dict([k \in Range(ks) |-> Get(datum, k)])>>,
                         <<S("order"), List(ks)>> >>))
    ELSE AttributeError("items")

\* ParametrizedWrapper.from_box, for OrderedMap
ParametrizedWrapper_from_box(self, datum) ==
    LET r == from_box(OrderedMap_schema(self), datum)
    IN IF IsOk(r) THEN OrderedMap_inflate(self, Val(r)) ELSE r

\* ParametrizedWrapper.to_box, for OrderedMap
ParametrizedWrapper_to_box(self, datum) ==
    LET r == OrderedMap_deflate(self, datum)
    IN IF IsOk(r) THEN to_box(OrderedMap_schema(self), Val(r)) ELSE r

Nothing_from_box(nothing) ==
    IF nothing # NoneV THEN ValidationError("Nothing expected", nothing) ELSE Ok(NoneV)

Nothing_to_box(nothing) == Ok(NoneV)

Maybe_from_box(self, datum) ==
    IF datum = NoneV THEN Ok(NoneV) ELSE from_box(self[3], datum)

Maybe_to_box(self, datum) ==
    IF datum = NoneV THEN Ok(NoneV) ELSE to_box(self[3], datum)

\* The name Schema.to_json gives a serializer: no serializer of the model has a
\* type_name attribute, so it is the name of the class
type_name(datum) == S(datum[2])

Schema_to_json(datum) ==
    LET entry == getitem(_get_current_map, type_name(datum))
    IN IF ~IsOk(entry) THEN entry
       ELSE LET param_schema == Val(entry)[2]
            IN IF param_schema # NoneV
               THEN IF type(datum) # "instance" THEN AttributeError("param")
                    ELSE LET b == to_box(param_schema, datum[3])
                         IN IF ~IsOk(b) THEN b
                            ELSE IF type(Val(b)) # "Box" THEN AttributeError("datum")
                            ELSE Ok(DictOf(<< <<S("type"), type_name(datum)>>,
                                              <<S("param"), Val(b)[2]>> >>))
               ELSE Ok(DictOf(<< <<S("type"), type_name(datum)>> >>))

\* serializer(param): the constructors of the parametrized classes
Construct(serializer, param) ==
    IF serializer[2] = "Struct" THEN Ok(Struct(param))
    ELSE IF serializer[2] \in {"Array", "Map", "Maybe", "OrderedMap"}
    THEN Ok(Instance(serializer[2], param))
    ELSE Raise("TypeError", "object takes no parameters", NoObj)

Schema_from_json(datum) ==
    IF type(datum) # "dict" \/ ~HasKey(datum, S("type"))
    THEN ValidationError("Invalid Schema", datum)
    ELSE LET t == Get(datum, S("type"))
             entry == getitem(_get_current_map, t)
         IN IF IsRaise(entry) /\ entry[2] = "KeyError"
            THEN Raise("UnknownTypeValidationError", "Unknown type", t)
            ELSE IF ~IsOk(entry) THEN entry
            ELSE LET serializer == Val(entry)[1]
                     param_schema == Val(entry)[2]
                 IN IF param_schema # NoneV
                    THEN IF ~HasKey(datum, S("param")) THEN KeyError(S("param"))
                         ELSE LET param == from_box(param_schema,
                                                    Box(Get(datum, S("param"))))
                              IN IF IsOk(param) THEN Construct(serializer, Val(param))
                                 ELSE param
                    ELSE Ok(serializer)

\* Dynamic.inflate
Dynamic_inflate(datum) ==
    IF ~HasKey(datum, S("schema")) THEN KeyError(S("schema"))
    ELSE LET schema == Get(datum, S("schema"))
             d == from_box(schema, IF HasKey(datum, S("datum"))
                                   THEN Get(datum, S("datum")) ELSE NoneV)
         IN IF IsOk(d)
            THEN Ok(DictOf(<< <<S("schema"), schema>>, <<S("datum"), Val(d)>> >>))
            ELSE d

\* Dynamic.deflate
Dynamic_deflate(datum) ==
    IF type(datum) \notin {"dict", "OrderedDict"}
    THEN Raise("TypeError", "not subscriptable", NoObj)
    ELSE IF ~HasKey(datum, S("schema")) THEN KeyError(S("schema"))
    ELSE IF ~HasKey(datum, S("datum")) THEN KeyError(S("datum"))
    ELSE LET schema == Get(datum, S("schema"))
             d == to_box(schema, Get(datum, S("datum")))
         IN IF IsOk(d)
            THEN Ok(DictOf(<< <<S("schema"), schema>>, <<S("datum"), Val(d)>> >>))
            ELSE d

\* BasicWrapper.from_box, for Dynamic and for Suit (which inherits inflate)
BasicWrapper_from_box(cls, datum) ==
    LET r == from_box(IF cls[2] = "Dynamic" THEN Dynamic_schema ELSE Suit_schema, datum)
    IN IF ~IsOk(r) THEN r
       ELSE IF cls[2] = "Dynamic" THEN Dynamic_inflate(Val(r))
       ELSE r

\* BasicWrapper.to_box
BasicWrapper_to_box(cls, datum) ==
    LET d == IF cls[2] = "Dynamic" THEN Dynamic_deflate(datum) ELSE Ok(datum)
    IN IF ~IsOk(d) THEN d
       ELSE to_box(IF cls[2] = "Dynamic" THEN Dynamic_schema ELSE Suit_schema, Val(d))

\* The classes by their base
BasicClasses == {"Integer", "Float", "String", "Binary", "Boolean", "Schema"}
WrapperClasses == {"Dynamic", "Suit"}
ParametrizedPrimitives == {"Array", "Struct", "Map"}

IsClass(schema, names) == type(schema) = "class" /\ schema[2] \in names
IsInstance(schema, names) == type(schema) = "instance" /\ schema[2] \in names

from_box(schema, box) ==
    CASE IsClass(schema, BasicClasses) -> Basic_from_box(schema, box)
      [] IsClass(schema, {"JSON"}) -> JSON_from_box(box)
      [] IsClass(schema, {"Nothing"}) -> Nothing_from_box(box)
      [] IsClass(schema, WrapperClasses) -> BasicWrapper_from_box(schema, box)
      [] IsInstance(schema, ParametrizedPrimitives) -> Parametrized_from_box(schema, box)
      [] IsInstance(schema, {"Maybe"}) -> Maybe_from_box(schema, box)
      [] IsInstance(schema, {"OrderedMap"}) -> ParametrizedWrapper_from_box(schema, box)
      [] OTHER -> AttributeError("from_box")

from_json(schema, datum) ==
    CASE IsClass(schema, {"Integer"}) -> Integer_from_json(datum)
      [] IsClass(schema, {"Float"}) -> Float_from_json(datum)
      [] IsClass(schema, {"String"}) -> String_from_json(datum)
      [] IsClass(schema, {"Binary"}) -> Binary_from_json(datum)
      [] IsClass(schema, {"Boolean"}) -> Boolean_from_json(datum)
      [] IsClass(schema, {"JSON"}) -> JSON_from_json(datum)
      [] IsClass(schema, {"Schema"}) -> Schema_from_json(datum)
      [] IsClass(schema, {"Nothing"}) -> BasicPrimitive_from_json(datum)
      [] IsInstance(schema, {"Array"}) -> Array_from_json(schema, datum)
      [] IsInstance(schema, {"Struct"}) -> Struct_from_json(schema, datum)
      [] IsInstance(schema, {"Map"}) -> Map_from_json(schema, datum)
      [] OTHER -> AttributeError("from_json")

to_box(schema, datum) ==
    CASE IsClass(schema, BasicClasses) -> Basic_to_box(schema, datum)
      [] IsClass(schema, {"JSON"}) -> JSON_to_box(datum)
      [] IsClass(schema, {"Nothing"}) -> Nothing_to_box(datum)
      [] IsClass(schema, WrapperClasses) -> BasicWrapper_to_box(schema, datum)
      [] IsInstance(schema, ParametrizedPrimitives) -> Parametrized_to_box(schema, datum)
      [] IsInstance(schema, {"Maybe"}) -> Maybe_to_box(schema, datum)
      [] IsInstance(schema, {"OrderedMap"}) -> ParametrizedWrapper_to_box(schema, datum)
      [] OTHER -> AttributeError("to_box")

to_json(schema, datum) ==
    CASE IsClass(schema, {"Integer", "Float", "String", "Boolean", "Nothing"}) ->
            BasicPrimitive_to_json(datum)
      [] IsClass(schema, {"Binary"}) -> Binary_to_json(datum)
      [] IsClass(schema, {"JSON"}) -> JSON_to_json(datum)
      [] IsClass(schema, {"Schema"}) -> Schema_to_json(datum)
      [] IsInstance(schema, {"Array"}) -> Array_to_json(schema, datum)
      [] IsInstance(schema, {"Struct"}) -> Struct_to_json(schema, datum)
      [] IsInstance(schema, {"Map"}) -> Map_to_json(schema, datum)
      [] OTHER -> AttributeError("to_json")

----------------------------------------------------------------------------
\* The registry as a state machine: threads enter and leave scopes and resolve
\* schemas. A whole call runs in one step: a call reads only the stack of its
\* own thread.

Idle == <<"idle">>
Pending == <<"pending">>

\* The schema descriptions the threads resolve
ResolveInputs ==
    {DictOf(<< <<S("type"), S(name)>> >>) :
        name \in {"Integer", "suit", "YesNoMaybe", "number"}}
    \cup {DictOf(<< <<S("type"), S("Array")>>,
                   <<S("param"), DictOf(<< <<S("type"), S(name)>> >>)>> >>) :
            name \in {"Boolean", "suit"}}

\* The scheduler runs another thread
Switch(t) ==
    /\ t # running
    /\ running' = t
    /\ UNCHANGED <<ctx, blocks, last, hashOrder, call, result>>

\* The running thread enters a scope: "with self:", directly (how = "with") or in
\* the function TypeMap.middleware returns (how = "middleware"). A block records
\* the mapping that was current when it was entered.
Enter(how, self) ==
    /\ Len(blocks[running]) < MaxDepth
    /\ ctx' = TypeMap_enter(ctx, running, self)
    /\ blocks' = [blocks EXCEPT ![running] = Append(@, <<self, _get_current_map>>)]
    /\ last' = <<"enter", running, how, self>>
    /\ UNCHANGED <<running, hashOrder, call, result>>

With(self) == Enter("with", self)

Middleware(self) == Enter("middleware", self)

\* The running thread leaves its innermost block: its body returned
\* (raised = FALSE) or ended with an exception (raised = TRUE); __exit__ returns
\* None, so the exception goes on to the caller
Leave(raised) ==
    /\ Len(blocks[running]) > 0
    /\ ctx' = TypeMap_exit(ctx, running, raised)
    /\ blocks' = [blocks EXCEPT ![running] = SubSeq(@, 1, Len(@) - 1)]
    /\ last' = <<"exit", running, raised, blocks[running][Len(blocks[running])]>>
    /\ UNCHANGED <<running, hashOrder, call, result>>

\* The running thread deserializes a schema description
Resolve(datum) ==
    /\ last' = <<"from_json", running, datum, from_box(Class("Schema"), Box(datum))>>
    /\ ctx' = LocalStack_top(ctx, running)
    /\ UNCHANGED <<blocks, running, hashOrder, call, result>>

Init ==
    /\ ctx = [t \in Threads |-> <<>>]
    /\ blocks = [t \in Threads |-> <<>>]
    /\ running \in Threads
    /\ last = <<"start">>
    /\ hashOrder = "asc"
    /\ call = Idle
    /\ result = Pending

Next ==
    \/ \E t \in Threads : Switch(t)
    \/ \E self \in TypeMaps : With(self)
    \/ \E self \in TypeMaps : Middleware(self)
    \/ \E raised \in BOOLEAN : Leave(raised)
    \/ \E datum \in ResolveInputs : Resolve(datum)

Spec == Init /\ [][Next]_vars

----------------------------------------------------------------------------
\* The serializers as a state machine: one call, from_json(schema, datum) or
\* to_json(schema, datum), drawn from the inputs below and run by thread t1,
\* outside any scope or inside an AllSuits scope.

\* Sequences over set of length up to n
SeqsUpTo(set, n) == UNION {[1..k -> set] : k \in 0..n}

\* Dicts with keys among keys and values in vals
DictsOver(keys, vals) == {Dict(f) : f \in UNION {[K -> vals] : K \in SUBSET keys}}

\* JSON values that are no container
Scalars ==
    {NoneV, PyBool(TRUE), PyBool(FALSE), PyFloat(20), PyFloat(11),
     U(""), U("omg"), S("omg"), S("\\xff"), U("YWJj"), U("a")}
    \cup {PyInt(n) : n \in 0..MaxInt}

\* A field declared with its attributes: ("name", {"schema": .., "required": ..})
field(name, schema, req) ==
    <<name, DictOf(<< <<S("schema"), schema>>, <<S("required"), PyBool(req)>> >>)>>

\* The Struct of the tests, its fields declared with required()
TestStruct ==
    Struct(List(<<required(U("foo"), Class("Boolean")),
                  required(U("bar"), Class("Integer"))>>))

\* The same with bar declared optional in its field record
OptionalStruct ==
    Struct(List(<<field(U("foo"), Class("Boolean"), TRUE),
                  field(U("bar"), Class("Integer"), FALSE)>>))

\* Fields that hold text and composites
TextStruct ==
    Struct(List(<<required(U("foo"), Class("String")),
                  required(U("bar"), Array(Class("Integer")))>>))

NestedStruct ==
    Struct(List(<<required(U("foo"), Map(Class("Boolean"))),
                  required(U("bar"), TestStruct)>>))

\* A field that holds any JSON value in a Box
JsonStruct == Struct(List(<<required(U("foo"), Class("JSON"))>>))

StructSchemas == {TestStruct, OptionalStruct}

AtomicSchemas ==
    {Class(name) : name \in {"Integer", "Float", "String", "Binary", "Boolean",
                             "JSON", "Nothing", "Schema", "Dynamic"}}

\* JSON objects for the Structs over foo and bar
StructWires ==
    DictsOver({U("foo"), U("bar"), U("barr")},
              {NoneV, PyBool(TRUE), PyBool(FALSE), PyInt(0), PyInt(MaxInt), U("")})

TextStructWires ==
    {Dict(f) : f \in [{U("foo"), U("bar")} ->
                        {U(""), U("omg"), List(<<>>), List(<<PyInt(1)>>),
                         List(<<PyBool(TRUE)>>)}]}
    \cup {DictOf(<< <<U("foo"), U("omg")>> >>)}

SmallMaps == DictsOver({U("a"), U("b")}, {PyBool(TRUE), PyBool(FALSE)})

NestedStructWires ==
    {Dict(f) : f \in [{U("foo"), U("bar")} ->
                        {DictOf(<<>>), DictOf(<< <<U("a"), PyInt(0)>> >>),
                         DictOf(<< <<U("foo"), PyBool(TRUE)>>, <<U("bar"), PyInt(1)>> >>),
                         DictOf(<< <<U("foo"), PyBool(TRUE)>>, <<U("bar"), PyBool(FALSE)>> >>)}]}

BoolLists == {List(seq) : seq \in SeqsUpTo({PyBool(TRUE), PyBool(FALSE), PyInt(1)}, MaxLen)}

\* Arrays of objects, for Array(Struct)
DeepWires ==
    {List(seq) :
        seq \in SeqsUpTo(DictsOver({U("foo"), U("bar")},
                                   {PyBool(TRUE), PyBool(FALSE), PyInt(MaxInt)}),
                         MaxLen - 1)}
    \cup {List(<<DictOf(<< <<U("foo"), PyBool(TRUE)>>, <<U("bar"), PyInt(1)>> >>), d>>) :
            d \in DictsOver({U("foo"), U("bar")}, {PyBool(FALSE), PyInt(MaxInt)})}

\* Objects of arrays, for Map(Array(Boolean)), and with a str key
MapWires ==
    DictsOver({U("a"), U("b")}, {PyBool(TRUE), PyInt(0), List(<<PyBool(TRUE), PyInt(0)>>),
                                 List(<<PyBool(FALSE)>>)})
    \cup {DictOf(<< <<S("nope"), PyBool(FALSE)>> >>)}

\* {"map": m, "order": o}
OrderedMapWire(m, o) == DictOf(<< <<U("map"), m>>, <<U("order"), List(o)>> >>)

OrderedMapWires ==
    {OrderedMapWire(m, o) :
        m \in DictsOver({U("a"), U("b")}, {PyBool(TRUE), PyBool(FALSE), PyFloat(20)}),
        o \in SeqsUpTo({U("a"), U("b"), U("c")}, MaxLen)}

\* Schema descriptions
TypeJson(name) == DictOf(<< <<S("type"), U(name)>> >>)

ParamJson(name, param) == DictOf(<< <<S("type"), U(name)>>, <<S("param"), param>> >>)

AtomicJsons ==
    {TypeJson(name) : name \in {"Integer", "Boolean", "String", "Schema", "JSON",
                                "Nothing", "Dynamic", "suit", "number"}}

\* A field description {"schema": ..} and one with all its attributes
FieldJson(schema) == DictOf(<< <<U("schema"), schema>> >>)

FullFieldJson(schema, req, doc) ==
    DictOf(<< <<U("schema"), schema>>, <<U("required"), PyBool(req)>>,
              <<U("doc"), U(doc)>> >>)

\* struct_schema of the tests
struct_schema ==
    ParamJson("Struct",
        OrderedMapWire(
            DictOf(<< <<U("foo"), FullFieldJson(TypeJson("Boolean"), TRUE,
                                                "Never gonna give you up")>>,
                      <<U("bar"), DictOf(<< <<U("schema"), TypeJson("Integer")>>,
                                            <<U("required"), PyBool(FALSE)>> >>)>> >>),
            <<U("foo"), U("bar")>>))

\* Struct descriptions whose fields have a schema alone
StructJsons ==
    {ParamJson("Struct", OrderedMapWire(Dict(m), o)) :
        m \in UNION {[K -> {FieldJson(TypeJson("Boolean")), FieldJson(TypeJson("Integer"))}] :
                        K \in SUBSET {U("foo"), U("bar")}},
        o \in SeqsUpTo({U("foo"), U("bar")}, MaxLen)}

ParamJsons ==
    {ParamJson(name, param) :
        name \in {"Array", "Map", "OrderedMap", "Maybe", "Integer"},
        param \in AtomicJsons \cup {struct_schema, PyBool(TRUE)}}

SchemaJsons ==
    AtomicJsons \cup ParamJsons \cup StructJsons
    \cup {struct_schema, ParamJson("Array", struct_schema), TypeJson("Array"),
          TypeJson("Struct"), ParamJson("Array", ParamJson("Array", TypeJson("Boolean"))),
          DictOf(<< <<S("param"), TypeJson("Boolean")>> >>),
          DictOf(<< <<S("type"), List(<<>>)>> >>)}

\* {"schema": description, "datum": value}, with "datum" absent, null or given
DynamicWires ==
    LET schemas == {TypeJson("Integer"), TypeJson("Nothing"), TypeJson("JSON"),
                    TypeJson("number"), ParamJson("Maybe", TypeJson("Integer")),
                    ParamJson("Array", TypeJson("Boolean")),
                    ParamJson("Struct",
                        OrderedMapWire(DictOf(<< <<U("foo"),
                                                   FieldJson(TypeJson("Boolean"))>> >>),
                                       <<U("foo")>>))}
    IN {DictOf(<< <<U("schema"), s>> >>) : s \in schemas}
       \cup {DictOf(<< <<U("schema"), s>>, <<U("datum"), d>> >>) :
                s \in schemas,
                d \in {NoneV, PyInt(1), PyBool(TRUE), List(<<PyBool(TRUE)>>),
                       DictOf(<< <<U("foo"), PyBool(TRUE)>> >>)}}

FromJsonCalls ==
    {<<"from_json", schema, datum>> :
        schema \in AtomicSchemas \cup StructSchemas
                   \cup {Maybe(Class("Integer")), Array(Class("Boolean")),
                         Map(Class("Boolean")), OrderedMap(Class("Boolean"))},
        datum \in Scalars \cup {List(<<>>), DictOf(<<>>)}}
    \cup {<<"from_json", schema, datum>> :
            schema \in {Array(Class("Boolean")), Array(Class("Integer")),
                        Array(Maybe(Class("Boolean")))},
            datum \in BoolLists}
    \cup {<<"from_json", schema, datum>> :
            schema \in StructSchemas, datum \in StructWires}
    \cup {<<"from_json", TextStruct, datum>> : datum \in TextStructWires}
    \cup {<<"from_json", NestedStruct, datum>> : datum \in NestedStructWires}
    \cup {<<"from_json", Array(schema), datum>> :
            schema \in StructSchemas, datum \in DeepWires}
    \cup {<<"from_json", schema, datum>> :
            schema \in {Map(Class("Boolean")), Map(Array(Class("Boolean")))},
            datum \in MapWires}
    \cup {<<"from_json", schema, datum>> :
            schema \in {OrderedMap(Class("Boolean")), OrderedMap(Class("Integer"))},
            datum \in OrderedMapWires
                      \cup {DictOf(<< <<U("map"), DictOf(<<>>)>> >>),
                            DictOf(<< <<U("order"), List(<<>>)>> >>)}}
    \cup {<<"from_json", Class("Schema"), datum>> : datum \in SchemaJsons}
    \cup {<<"from_json", Class("Dynamic"), datum>> : datum \in DynamicWires}

\* Native values for the Structs over foo and bar; None stands for no value
StructNatives ==
    {d \in DictsOver({U("foo"), U("bar")},
                     {NoneV, PyBool(TRUE), PyBool(FALSE), PyInt(0), PyInt(MaxInt)}) :
        /\ HasKey(d, U("foo")) => type(Get(d, U("foo"))) \in {"bool", "None"}
        /\ HasKey(d, U("bar")) => type(Get(d, U("bar"))) \in {"int", "None"}}

TextStructNatives ==
    {Dict(f) : f \in UNION {[K -> {U(""), U("omg")}] : K \in {{U("foo")}} }}
    \cup {DictOf(<< <<U("foo"), foo>>, <<U("bar"), List(bar)>> >>) :
            foo \in {U(""), U("omg")}, bar \in SeqsUpTo({PyInt(0), PyInt(1)}, MaxLen)}

NestedStructNatives ==
    {DictOf(<< <<U("foo"), foo>>, <<U("bar"), bar>> >>) :
        foo \in SmallMaps,
        bar \in {d \in StructNatives : HasKey(d, U("foo")) /\ HasKey(d, U("bar"))}}

\* Values of JsonStruct: the box of foo holds null or a value
JsonStructNatives ==
    {DictOf(<<>>)}
    \cup {DictOf(<< <<U("foo"), Box(datum)>> >>) : datum \in {NoneV, PyBool(TRUE), PyInt(0)}}

\* OrderedDicts with keys a, b in any order
OrderedNatives ==
    {OrderedDict(pairs) :
        pairs \in {seq \in SeqsUpTo({U("a"), U("b")} \X {PyBool(TRUE), PyBool(FALSE)}, MaxLen) :
                      \A i, j \in DOMAIN seq : seq[i][1] = seq[j][1] => i = j}}

\* Serializers, as values of the type Schema
SchemaNatives ==
    AtomicSchemas \cup StructSchemas
    \cup {TextStruct, NestedStruct, Array(TestStruct), Struct(List(<<>>)), Class("Suit"),
          Array(Class("Boolean")), Map(Class("Integer")), OrderedMap(Class("Boolean")),
          Maybe(Class("Integer")), Array(Array(Class("Boolean"))),
          OrderedMap(OptionalStruct)}

ToJsonCalls ==
    {<<"to_json", Class("Integer"), PyInt(n)>> : n \in 0..MaxInt}
    \cup {<<"to_json", Class("Float"), PyFloat(f)>> : f \in {0, 11, 20}}
    \cup {<<"to_json", Class("String"), U(text)>> : text \in {"", "omg"}}
    \cup {<<"to_json", Class("Boolean"), PyBool(b)>> : b \in BOOLEAN}
    \cup {<<"to_json", Class("Binary"), S(bytes)>> : bytes \in {"", "abc"}}
    \cup {<<"to_json", Class("JSON"), Box(datum)>> : datum \in Scalars}
    \cup {<<"to_json", Class("Nothing"), NoneV>>}
    \cup {<<"to_json", schema, List(seq)>> :
            schema \in {Array(Class("Boolean")), Array(Maybe(Class("Boolean")))},
            seq \in SeqsUpTo({PyBool(TRUE), PyBool(FALSE)}, MaxLen)}
    \cup {<<"to_json", Array(Class("Integer")), List(seq)>> :
            seq \in SeqsUpTo({PyInt(0), PyInt(1)}, MaxLen)}
    \cup {<<"to_json", schema, datum>> : schema \in StructSchemas, datum \in StructNatives}
    \cup {<<"to_json", TextStruct, datum>> : datum \in TextStructNatives}
    \cup {<<"to_json", NestedStruct, datum>> : datum \in NestedStructNatives}
    \cup {<<"to_json", JsonStruct, datum>> : datum \in JsonStructNatives}
    \cup {<<"to_json", Map(Class("Boolean")), datum>> : datum \in SmallMaps}
    \cup {<<"to_json", schema, datum>> :
            schema \in {OrderedMap(Class("Boolean")), Maybe(OrderedMap(Class("Boolean")))},
            datum \in OrderedNatives}
    \cup {<<"to_json", Array(OrderedMap(Class("Boolean"))), List(seq)>> :
            seq \in SeqsUpTo({OrderedDict(<< <<U("a"), PyBool(TRUE)>> >>)}, 1)}
    \cup {<<"to_json", Class("Schema"), datum>> : datum \in SchemaNatives}

Calls == FromJsonCalls \cup ToJsonCalls

\* from_json(schema, datum) in the running thread
FromJson ==
    /\ call[1] = "from_json"
    /\ result = Pending
    /\ result' = from_box(call[2], Box(call[3]))
    /\ ctx' = LocalStack_top(ctx, running)
    /\ UNCHANGED <<blocks, running, last, hashOrder, call>>

\* to_json(schema, datum) in the running thread: the box of the JSON value
ToJson ==
    /\ call[1] = "to_json"
    /\ result = Pending
    /\ result' = to_box(call[2], call[3])
    /\ ctx' = LocalStack_top(ctx, running)
    /\ UNCHANGED <<blocks, running, last, hashOrder, call>>

CodecInit ==
    /\ \E stack \in {<<>>, <<New("AllSuits")>>} :
          /\ ctx = [t \in Threads |-> IF t = "t1" THEN stack ELSE <<>>]
          /\ blocks = [t \in Threads |->
                         IF t = "t1"
                         THEN [i \in DOMAIN stack |-> <<stack[i], _global_map>>]
                         ELSE <<>>]
    /\ running = "t1"
    /\ last = <<"start">>
    /\ hashOrder \in {"asc", "desc"}
    /\ call \in Calls
    /\ result = Pending

CodecNext == FromJson \/ ToJson

CodecSpec == CodecInit /\ [][CodecNext]_vars

----------------------------------------------------------------------------
\* Registry scoping (checked under Spec)

\* The mappings of the scopes thread t is inside, outermost first
Scopes(t) == [i \in 1..Len(blocks[t]) |-> blocks[t][i][1]]

\* The mapping of the innermost scope of thread t, the global one outside any
Innermost(t) ==
    IF Len(blocks[t]) = 0 THEN New("TypeMap") ELSE blocks[t][Len(blocks[t])][1]

\* The last operation resolved the schema description {"type": name}
Resolved(name) ==
    /\ last[1] = "from_json"
    /\ last[3] = DictOf(<< <<S("type"), S(name)>> >>)

UnknownType(r) ==
    /\ IsRaise(r)
    /\ r[2] = "UnknownTypeValidationError"
    /\ r[3] = "Unknown type"

\* The custom type names, each with the class of mapping that installs it and
\* the serializer it stands for
Custom ==
    {<<"suit", "AllSuits", Class("Suit")>>,
     <<"YesNoMaybe", "ExtendedTypeMap", Class("YesNoMaybe")>>}

\* C1: when a thread leaves a scope, by return or by an exception, the mapping
\* that is current for it is the one that was current when it entered that scope.
C1_ExitRestores ==
    (last[1] = "exit" /\ running = last[2]) => _get_current_map = last[4][2]

\* C1 witness: a nested scope left by an exception, with another mapping restored
C1_Witness ==
    /\ last[1] = "exit"
    /\ running = last[2]
    /\ last[3] = TRUE
    /\ Len(blocks[running]) > 0
    /\ last[4][2] # last[4][1]
    /\ _get_current_map = last[4][2]

\* C2: a custom type name resolves to its serializer inside the scope of the
\* override that installs it, and is an unknown type for a thread that is
\* inside no scope of that override (before entering it, after leaving it).
C2_CustomOnlyInScope ==
    \A c \in Custom :
        Resolved(c[1]) =>
            /\ New(c[2]) \notin Range(Scopes(last[2])) => UnknownType(last[4])
            /\ Innermost(last[2]) = New(c[2]) /\ Len(blocks[last[2]]) > 0
                  => last[4] = Ok(c[3])

\* C2 witness: "suit" resolved to Suit inside an AllSuits scope
C2_Witness ==
    /\ Resolved("suit")
    /\ Scopes(last[2]) = <<New("AllSuits")>>
    /\ last[4] = Ok(Class("Suit"))

\* C3: a thread resolves a custom name only if one of its own scopes installs
\* it, and a built-in name fails for it only under its own override, whatever
\* the scopes of the other threads are.
C3_ThreadIsolation ==
    /\ \A c \in Custom :
          (Resolved(c[1]) /\ IsOk(last[4])) => New(c[2]) \in Range(Scopes(last[2]))
    /\ (Resolved("Integer") /\ ~IsOk(last[4])) => Innermost(last[2]) = New("AllSuits")
    /\ (Resolved("Integer") /\ Len(blocks[last[2]]) = 0)
          => last[4] = Ok(Class("Integer"))

\* C3 witness: a thread outside any scope fails to resolve "suit" while the
\* other thread is inside an AllSuits scope
C3_Witness ==
    /\ Resolved("suit")
    /\ Len(blocks[last[2]]) = 0
    /\ \E u \in Threads \ {last[2]} : Innermost(u) = New("AllSuits") /\ Len(blocks[u]) > 0
    /\ UnknownType(last[4])

\* The type names each class of mapping resolves
Visible(cls) ==
    CASE cls = "AllSuits" -> {"Array", "suit"}
      [] cls = "ExtendedTypeMap" -> DOMAIN BUILTIN_TYPES \cup {"YesNoMaybe"}
      [] OTHER -> DOMAIN BUILTIN_TYPES

\* The type names a schema description of ResolveInputs uses
NamesIn(datum) ==
    {Get(datum, S("type"))[2]}
    \cup (IF HasKey(datum, S("param")) THEN {Get(Get(datum, S("param")), S("type"))[2]}
          ELSE {})

\* C4: a schema description resolves exactly when the innermost mapping of the
\* thread (the global one outside any scope) resolves every type name in it;
\* a name only an outer scope installs is an unknown type.
C4_InnermostOnly ==
    last[1] = "from_json" =>
        /\ IsOk(last[4]) <=> NamesIn(last[3]) \subseteq Visible(Innermost(last[2])[2])
        /\ ~IsOk(last[4]) => UnknownType(last[4])

\* C4 witness: inside a plain TypeMap scope nested in an ExtendedTypeMap scope
\* "YesNoMaybe" is an unknown type
C4_Witness ==
    /\ Resolved("YesNoMaybe")
    /\ Scopes(last[2]) = <<New("ExtendedTypeMap"), New("TypeMap")>>
    /\ UnknownType(last[4])

----------------------------------------------------------------------------
\* Serialization (checked under CodecSpec)

Done(op) == call[1] = op /\ result # Pending

\* The field records of a Struct, the declared names and the required ones: a
\* field is required unless its record says "required": False
Declared(schema) == {Keys(schema[3])[i][2] : i \in 1..Len(Keys(schema[3]))}

IsRequired(schema, name) ==
    LET f == Get(schema[3], U(name))
    IN HasKey(f, S("required")) => Get(f, S("required")) = PyBool(TRUE)

FieldSchema(schema, name) == Get(Get(schema[3], U(name)), S("schema"))

KeyTextsOf(datum) == {k[2] : k \in DOMAIN datum[2]}

\* v is a native value of the built-in schema: what from_json may give and
\* to_json is given
RECURSIVE Valid(_, _)
Valid(schema, v) ==
    CASE IsClass(schema, {"Integer"}) -> type(v) = "int"
      [] IsClass(schema, {"Float"}) -> type(v) = "float"
      [] IsClass(schema, {"String"}) -> type(v) = "unicode"
      [] IsClass(schema, {"Boolean"}) -> type(v) = "bool"
      [] IsClass(schema, {"Binary"}) -> type(v) = "str"
      [] IsClass(schema, {"JSON"}) -> type(v) = "Box"
      [] IsClass(schema, {"Nothing"}) -> v = NoneV
      [] IsInstance(schema, {"Maybe"}) -> v = NoneV \/ Valid(schema[3], v)
      [] IsInstance(schema, {"Array"}) ->
            type(v) = "list" /\ \A i \in DOMAIN v[2] : Valid(schema[3], v[2][i])
      [] IsInstance(schema, {"Map"}) ->
            /\ type(v) = "dict"
            /\ \A k \in DOMAIN v[2] : type(k) = "unicode" /\ Valid(schema[3], v[2][k])
      [] IsInstance(schema, {"OrderedMap"}) ->
            /\ type(v) = "OrderedDict"
            /\ \A i \in DOMAIN v[2] :
                  type(v[2][i][1]) = "unicode" /\ Valid(schema[3], v[2][i][2])
      [] IsInstance(schema, {"Struct"}) ->
            /\ type(v) = "dict"
            /\ KeyTextsOf(v) \subseteq Declared(schema)
            /\ \A name \in Declared(schema) :
                  /\ IsRequired(schema, name) => name \in KeyTextsOf(v)
                  /\ name \in KeyTextsOf(v) => Valid(FieldSchema(schema, name), Get(v, U(name)))
      [] OTHER -> FALSE

\* C5: for every built-in schema and every native value of it, deserializing
\* the serialized value gives the value back; Struct values with fields that
\* hold False, 0, "", [] or {} and composites in Struct fields included.
C5_RoundTrip ==
    (Done("to_json") /\ Valid(call[2], call[3])) =>
        /\ IsOk(result)
        /\ from_box(call[2], Val(result)) = Ok(call[3])

\* A value with every str in it, keys included, read as unicode: what == sees
RECURSIVE Canon(_)
Canon(v) ==
    CASE type(v) = "str" -> U(v[2])
      [] type(v) = "list" -> List([i \in DOMAIN v[2] |-> Canon(v[2][i])])
      [] type(v) = "dict" ->
            Dict([k \in {Canon(k0) : k0 \in DOMAIN v[2]} |->
                    Canon(v[2][CHOOSE k0 \in DOMAIN v[2] : Canon(k0) = k])])
      [] OTHER -> v

\* A serializer made of built-in types alone
RECURSIVE BuiltinSchema(_)
BuiltinSchema(schema) ==
    CASE type(schema) = "class" -> schema \in AtomicSchemas
      [] IsInstance(schema, {"Array", "Map", "OrderedMap", "Maybe"}) ->
            BuiltinSchema(schema[3])
      [] IsInstance(schema, {"Struct"}) ->
            \A name \in Declared(schema) : BuiltinSchema(FieldSchema(schema, name))
      [] OTHER -> FALSE

\* o lists each key of the dict m once
Permutation(o, m) ==
    /\ Len(o) = Cardinality(DOMAIN m[2])
    /\ {o[i][2] : i \in DOMAIN o} = KeyTextsOf(m)

\* A schema description of the wire format: {"type": name} for a type without
\* parameter, {"type": name, "param": description} for Array, Map, OrderedMap
\* and Maybe, and for Struct a param {"map": fields, "order": names} whose
\* fields are {"schema": description, "required": bool, "doc": text} with
\* required and doc optional
RECURSIVE ValidSchemaJson(_)
ValidSchemaJson(j) ==
    /\ type(j) = "dict"
    /\ HasKey(j, S("type"))
    /\ IsText(Get(j, S("type")))
    /\ LET name == Get(j, S("type"))[2]
       IN CASE name \in {"Integer", "Float", "String", "Binary", "Boolean", "JSON",
                         "Nothing", "Schema", "Dynamic"} ->
                  KeyTextsOf(j) = {"type"}
            [] name \in {"Array", "Map", "OrderedMap", "Maybe"} ->
                  KeyTextsOf(j) = {"type", "param"} /\ ValidSchemaJson(Get(j, S("param")))
            [] name = "Struct" ->
                  /\ KeyTextsOf(j) = {"type", "param"}
                  /\ LET param == Get(j, S("param"))
                     IN /\ type(param) = "dict"
                        /\ KeyTextsOf(param) = {"map", "order"}
                        /\ type(Get(param, S("map"))) = "dict"
                        /\ type(Get(param, S("order"))) = "list"
                        /\ \A i \in DOMAIN Get(param, S("order"))[2] :
                              IsText(Get(param, S("order"))[2][i])
                        /\ Permutation(Get(param, S("order"))[2], Get(param, S("map")))
                        /\ \A k \in DOMAIN Get(param, S("map"))[2] :
                              LET f == Get(param, S("map"))[2][k]
                              IN /\ type(f) = "dict"
                                 /\ {"schema"} \subseteq KeyTextsOf(f)
                                 /\ KeyTextsOf(f) \subseteq {"schema", "required", "doc"}
                                 /\ ValidSchemaJson(Get(f, S("schema")))
            [] OTHER -> FALSE

\* C6: a serializer made of built-in types is given back by deserializing its
\* description, and a schema description is given back by describing the
\* serializer it deserializes to: no attribute of a field (schema, required,
\* doc) and no field order is lost.
C6_SchemaRoundTrip ==
    /\ (Done("to_json") /\ call[2] = Class("Schema") /\ BuiltinSchema(call[3])
            /\ Len(ctx[running]) = 0) =>
          /\ IsOk(result)
          /\ from_box(Class("Schema"), Val(result)) = Ok(call[3])
    /\ (Done("from_json") /\ call[2] = Class("Schema") /\ ValidSchemaJson(call[3])
            /\ Len(ctx[running]) = 0) =>
          /\ IsOk(result)
          /\ IsOk(to_box(Class("Schema"), Val(result)))
          /\ Canon(Val(to_box(Class("Schema"), Val(result)))[2]) = Canon(call[3])

\* The last call deserialized a JSON object against a Struct
StructCall ==
    /\ Done("from_json")
    /\ IsInstance(call[2], {"Struct"})
    /\ type(call[3]) = "dict"

\* The required fields of the Struct that are no key of the object
Missing == {name \in Declared(call[2]) :
               IsRequired(call[2], name) /\ name \notin KeyTextsOf(call[3])}

\* The keys of the object that are no field of the Struct
Undeclared == KeyTextsOf(call[3]) \ Declared(call[2])

\* The error is a ValidationError with this message and a list of these names
FieldSetError(r, message, names) ==
    /\ IsValidationError(r)
    /\ r[3] = message
    /\ type(r[5]) = "list"
    /\ {r[5][2][i][2] : i \in DOMAIN r[5][2]} = names

\* C7: a JSON object that lacks required fields fails with "Missing fields" and
\* the names of all of them, whatever their schemas; an object of exactly the
\* required fields, each with a value of its schema, is accepted.
C7_MissingFields ==
    StructCall =>
        /\ Missing # {} => FieldSetError(result, "Missing fields", Missing)
        /\ (/\ KeyTextsOf(call[3]) =
                  {name \in Declared(call[2]) : IsRequired(call[2], name)}
            /\ \A name \in KeyTextsOf(call[3]) :
                  IsOk(from_box(FieldSchema(call[2], name), Box(Get(call[3], U(name))))))
              => IsOk(result)

\* The object gives every declared field of the Struct a value of its schema
AllDeclaredGiven ==
    \A name \in Declared(call[2]) :
        /\ name \in KeyTextsOf(call[3])
        /\ IsOk(from_box(FieldSchema(call[2], name), Box(Get(call[3], U(name)))))

\* C8: a JSON object that gives every declared field a value of its schema
\* fails with "Unexpected fields" exactly when one of its keys is no declared
\* field, a key whose value is null included, and the error lists all such keys.
C8_UnexpectedFields ==
    (StructCall /\ AllDeclaredGiven) =>
        /\ (IsRaise(result) /\ result[3] = "Unexpected fields") <=> Undeclared # {}
        /\ Undeclared # {} => FieldSetError(result, "Unexpected fields", Undeclared)

\* Array, Map and Struct nested over types without parameter
RECURSIVE Plain(_)
Plain(schema) ==
    CASE type(schema) = "class" ->
            schema[2] \in {"Integer", "Float", "String", "Binary", "Boolean", "JSON",
                           "Nothing"}
      [] IsInstance(schema, {"Array", "Map"}) -> Plain(schema[3])
      [] IsInstance(schema, {"Struct"}) ->
            \A name \in Declared(schema) : Plain(FieldSchema(schema, name))
      [] OTHER -> FALSE

Lost == <<"lost">>

\* The schema and the box a path of location markers leads to, from the root
\* of the document: an index into an array, a key into an object
RECURSIVE Locate(_, _, _)
Locate(schema, box, path) ==
    IF Len(path) = 0 THEN <<schema, box>>
    ELSE IF box = NoneV THEN Lost
    ELSE LET m == Head(path)
             datum == box[2]
         IN CASE /\ IsInstance(schema, {"Array"}) /\ type(datum) = "list"
                 /\ type(m) = "int" /\ (m[2] + 1) \in DOMAIN datum[2] ->
                    Locate(schema[3], Box(datum[2][m[2] + 1]), Tail(path))
              [] /\ IsInstance(schema, {"Map"}) /\ type(datum) = "dict"
                 /\ m \in DOMAIN datum[2] ->
                    Locate(schema[3], Box(datum[2][m]), Tail(path))
              [] /\ IsInstance(schema, {"Struct"}) /\ type(datum) = "dict"
                 /\ IsText(m) /\ m[2] \in Declared(schema) ->
                    Locate(FieldSchema(schema, m[2]),
                           IF HasKey(datum, m) /\ Get(datum, m) # NoneV
                           THEN Box(Get(datum, m)) ELSE NoneV,
                           Tail(path))
              [] OTHER -> Lost

\* [{"foo": true, "bar": false}]
DeepExample ==
    List(<<DictOf(<< <<U("foo"), PyBool(TRUE)>>, <<U("bar"), PyBool(FALSE)>> >>)>>)

\* C9: the markers of a failed deserialization, in the order they are printed,
\* lead from the root of the document through each enclosing Array, Map and
\* Struct, one marker each, to the value whose schema raised the error, with the
\* message and the object of that error; [{"foo": true, "bar": false}] against
\* Array(Struct{foo Boolean, bar Integer}) is reported at [0]["bar"].
C9_ErrorPath ==
    /\ (Done("from_json") /\ Plain(call[2]) /\ IsValidationError(result)) =>
          LET at == Locate(call[2], Box(call[3]), ValidationError_str(result)[1])
          IN /\ at # Lost
             /\ from_box(at[1], at[2]) =
                   <<"raise", result[2], result[3], <<>>, result[5]>>
    /\ (Done("from_json") /\ call[2] = Array(TestStruct) /\ call[3] = DeepExample) =>
          /\ IsValidationError(result)
          /\ ValidationError_str(result) =
                << <<PyInt(0), U("bar")>>, "Invalid Integer", PyBool(FALSE)>>

\* C9 witness: the error of [{"foo": true, "bar": false}] after both composites
\* pushed their markers
C9_Witness ==
    /\ Done("from_json")
    /\ call[2] = Array(TestStruct)
    /\ call[3] = DeepExample
    /\ IsValidationError(result)
    /\ result[4] = <<U("bar"), PyInt(0)>>

\* The last call deserialized {"map": m, "order": o} against an OrderedMap, m
\* an object of values of the parameter and o an array of strings
OrderedMapCall ==
    /\ Done("from_json")
    /\ IsInstance(call[2], {"OrderedMap"})
    /\ type(call[3]) = "dict"
    /\ KeyTextsOf(call[3]) = {"map", "order"}
    /\ type(Get(call[3], S("map"))) = "dict"
    /\ type(Get(call[3], S("order"))) = "list"
    /\ \A k \in DOMAIN Get(call[3], S("map"))[2] :
          /\ type(k) = "unicode"
          /\ IsOk(from_box(call[2][3], Box(Get(call[3], S("map"))[2][k])))
    /\ \A i \in DOMAIN Get(call[3], S("order"))[2] :
          type(Get(call[3], S("order"))[2][i]) = "unicode"

\* C10: when o is no permutation of the keys of m the call fails with "Invalid
\* OrderedMap" and the wire value as it was passed in.
C10_InvalidOrderedMap ==
    (OrderedMapCall /\ ~Permutation(Get(call[3], S("order"))[2], Get(call[3], S("map")))) =>
        /\ IsValidationError(result)
        /\ result[3] = "Invalid OrderedMap"
        /\ result[5] = call[3]

\* A JSON value as == compares it: a str is equal to the unicode of the same
\* text and a float without fraction to the int of the same value
RECURSIVE Compared(_)
Compared(v) ==
    CASE type(v) = "str" -> U(v[2])
      [] type(v) = "float" -> IF v[2] % 10 = 0 THEN PyInt(v[2] \div 10) ELSE v
      [] type(v) = "list" -> List([i \in DOMAIN v[2] |-> Compared(v[2][i])])
      [] type(v) = "dict" ->
            Dict([k \in {Compared(k0) : k0 \in DOMAIN v[2]} |->
                    Compared(v[2][CHOOSE k0 \in DOMAIN v[2] : Compared(k0) = k])])
      [] OTHER -> v

\* C11: a wire value {"map": m, "order": o} with o a permutation of the keys of
\* m, the empty map with the empty order included, deserializes to an
\* OrderedDict whose keys are o in that order and whose values are the
\* deserialized values of m, and serializing that OrderedDict gives the wire
\* value back.
C11_OrderedMapRoundTrip ==
    (OrderedMapCall /\ Permutation(Get(call[3], S("order"))[2], Get(call[3], S("map")))) =>
        /\ IsOk(result)
        /\ type(Val(result)) = "OrderedDict"
        /\ Keys(Val(result)) = Get(call[3], S("order"))[2]
        /\ \A k \in DOMAIN Get(call[3], S("map"))[2] :
              Ok(Get(Val(result), k)) =
                 from_box(call[2][3], Box(Get(call[3], S("map"))[2][k]))
        /\ IsOk(to_box(call[2], Val(result)))
        /\ Compared(Val(to_box(call[2], Val(result)))[2]) = Compared(call[3])

\* The last call deserialized a schema description whose type name the current
\* map resolves
SchemaCall ==
    /\ Done("from_json")
    /\ call[2] = Class("Schema")
    /\ type(call[3]) = "dict"
    /\ HasKey(call[3], S("type"))
    /\ IsOk(getitem(_get_current_map, Get(call[3], S("type"))))

\* The resolved type takes a parameter
TakesParam == Val(getitem(_get_current_map, Get(call[3], S("type"))))[2] # NoneV

\* C12: a description without "param" of a type that takes a parameter fails
\* with the ValidationError "Missing param", and a description with "param" of
\* a type that takes none fails with the ValidationError "Unexpected param".
C12_ParamPresence ==
    SchemaCall =>
        /\ (TakesParam /\ ~HasKey(call[3], S("param"))) =>
              (IsValidationError(result) /\ result[3] = "Missing param")
        /\ (~TakesParam /\ HasKey(call[3], S("param"))) =>
              (IsValidationError(result) /\ result[3] = "Unexpected param")

\* The names of the declared fields that the native value holds with a value
\* other than None
Held == {name \in Declared(call[2]) :
            HasKey(call[3], U(name)) /\ Get(call[3], U(name)) # NoneV}

\* The last call serialized a dict against a Struct, each held field a value
\* of its schema that the schema serializes
StructToJson ==
    /\ Done("to_json")
    /\ IsInstance(call[2], {"Struct"})
    /\ type(call[3]) = "dict"
    /\ \A name \in Held :
          /\ Valid(FieldSchema(call[2], name), Get(call[3], U(name)))
          /\ IsOk(to_box(FieldSchema(call[2], name), Get(call[3], U(name))))

\* C13: the output object has an entry for a declared field exactly when the
\* native value holds the field with a value other than None, the entry is the
\* field's serialized value, and no undeclared key is emitted. A null in the
\* output is the serialization of a held field, never of an absent or None one.
C13_StructEmitsHeld ==
    StructToJson =>
        /\ IsOk(result)
        /\ type(Val(result)[2]) = "dict"
        /\ KeyTextsOf(Val(result)[2]) = Held
        /\ \A name \in Held :
              Get(Val(result)[2], U(name)) =
                 Val(to_box(FieldSchema(call[2], name), Get(call[3], U(name))))[2]

\* C13 as stated: in addition no entry of the output is a JSON null
C13_NeverNull ==
    StructToJson =>
        /\ C13_StructEmitsHeld
        /\ IsOk(result) =>
              \A k \in DOMAIN Val(result)[2][2] : Val(result)[2][2][k] # NoneV

\* C13 witness: {"foo": True, "bar": None} serialized as {"foo": True}
C13_Witness ==
    /\ StructToJson
    /\ call[2] = TestStruct
    /\ call[3] = DictOf(<< <<U("foo"), PyBool(TRUE)>>, <<U("bar"), NoneV>> >>)
    /\ result = Ok(Box(DictOf(<< <<U("foo"), PyBool(TRUE)>> >>)))

\* Some declared field of the object has a value that its schema rejects
SomeFieldInvalid ==
    \E name \in Declared(call[2]) \cap KeyTextsOf(call[3]) :
        /\ Get(call[3], U(name)) # NoneV
        /\ IsRaise(from_box(FieldSchema(call[2], name), Box(Get(call[3], U(name)))))

\* C14: an object that lacks a required field or has an undeclared key, and in
\* which a declared field has an invalid value, fails with "Missing fields" or
\* "Unexpected fields" and an empty location stack, never with the error of a
\* field.
C14_FieldSetFirst ==
    (StructCall /\ (Missing # {} \/ Undeclared # {}) /\ SomeFieldInvalid) =>
        /\ IsValidationError(result)
        /\ result[3] \in {"Missing fields", "Unexpected fields"}
        /\ result[4] = <<>>

\* The last call deserialized {"schema": S, "datum": d}, with or without
\* "datum", against Dynamic, and S is a schema description the current map
\* resolves
DynamicCall ==
    /\ Done("from_json")
    /\ call[2] = Class("Dynamic")
    /\ type(call[3]) = "dict"
    /\ {"schema"} \subseteq KeyTextsOf(call[3])
    /\ KeyTextsOf(call[3]) \subseteq {"schema", "datum"}
    /\ IsOk(from_box(Class("Schema"), Box(Get(call[3], U("schema")))))

\* The schema that S describes
Parsed == Val(from_box(Class("Schema"), Box(Get(call[3], U("schema")))))

\* "datum" is absent or null
NoDatum == ~HasKey(call[3], U("datum")) \/ Get(call[3], U("datum")) = NoneV

\* The schema accepts the absence of a value
Tolerates(schema) == IsInstance(schema, {"Maybe"}) \/ schema = Class("Nothing")

\* C15: Dynamic parses S and deserializes d against the parsed schema; without
\* a datum the call succeeds when the schema is a Maybe or Nothing and fails
\* with a ValidationError for every other schema, atomic or parametrized.
C15_DynamicDatum ==
    DynamicCall =>
        /\ (NoDatum /\ Tolerates(Parsed)) =>
              result = Ok(DictOf(<< <<S("schema"), Parsed>>, <<S("datum"), NoneV>> >>))
        /\ (NoDatum /\ ~Tolerates(Parsed)) => IsValidationError(result)
        /\ ~NoDatum =>
              LET d == from_box(Parsed, Box(Get(call[3], U("datum"))))
              IN IF IsOk(d)
                 THEN result = Ok(DictOf(<< <<S("schema"), Parsed>>,
                                            <<S("datum"), Val(d)>> >>))
                 ELSE result = d

====
